---- MODULE Spec2Model ----
(***************************************************************************)
(* A model of src/instagram_bot.py: the InstagramBot message handler, the  *)
(* pure text functions it is built from, and the regular expressions those *)
(* functions apply.                                                        *)
(*                                                                         *)
(* Text is a TLA+ string; its characters are Python code points.  The      *)
(* source's pictographs are each one code point and are written "^" here,  *)
(* its bullet (U+2022) is written "o": lengths are those of the source.    *)
(* Python's None is the value NoneVal.                                     *)
(***************************************************************************)
EXTENDS Integers, Sequences, FiniteSets, TLC

(***************************************************************************)
(* Characters and character classes                                        *)
(***************************************************************************)
Ch(s, i) == SubSeq(s, i, i)

CharsOf(s) == {Ch(s, i) : i \in 1..Len(s)}

LowerStr == "abcdefghijklmnopqrstuvwxyz"

UpperStr == "ABCDEFGHIJKLMNOPQRSTUVWXYZ"

DigitStr == "0123456789"

Lower == CharsOf(LowerStr)

Upper == CharsOf(UpperStr)

Digits == CharsOf(DigitStr)

Letters == Lower \cup Upper

\* \w of the re module, on the characters the model uses
WordChars == Letters \cup Digits \cup {"_"}

\* \s of the re module
SpaceChars == {" ", "\n", "\t", "\r", "\f"}

NoneVal == "<None>"

RECURSIVE IndexIn(_, _, _)
IndexIn(str, c, i) ==
    IF i > Len(str) THEN 0
    ELSE IF Ch(str, i) = c THEN i
    ELSE IndexIn(str, c, i + 1)

\* the other case of a letter (re.IGNORECASE matches both)
SwapCase(c) ==
    IF c \in Lower THEN Ch(UpperStr, IndexIn(LowerStr, c, 1))
    ELSE IF c \in Upper THEN Ch(LowerStr, IndexIn(UpperStr, c, 1))
    ELSE c

(***************************************************************************)
(* Regular expressions as the re module matches them: a pattern is a       *)
(* sequence of alternatives (A|B), an alternative a sequence of items, an  *)
(* item a greedy quantified character class (hi = -1: unbounded), possibly *)
(* a capture group, or one of the assertions \b ^ $.  Matching backtracks  *)
(* from the longest repetition down; search takes the leftmost start and   *)
(* there the first alternative that matches.                               *)
(***************************************************************************)
Cls(cs, lo, hi, g) == [k |-> "set", cs |-> cs, lo |-> lo, hi |-> hi, g |-> g]

One(cs) == Cls(cs, 1, 1, 0)

Opt(cs) == Cls(cs, 0, 1, 0)

Star(cs) == Cls(cs, 0, -1, 0)

Plus(cs) == Cls(cs, 1, -1, 0)

Group(g, item) == [item EXCEPT !.g = g]

WB == [k |-> "wb", cs |-> {}, lo |-> 0, hi |-> 0, g |-> 0]

BOL == [k |-> "bol", cs |-> {}, lo |-> 0, hi |-> 0, g |-> 0]

EOL == [k |-> "eol", cs |-> {}, lo |-> 0, hi |-> 0, g |-> 0]

\* a literal, character by character
Lit(str) == [i \in 1..Len(str) |-> One({Ch(str, i)})]

\* a literal under re.IGNORECASE
LitI(str) == [i \in 1..Len(str) |-> One({Ch(str, i), SwapCase(Ch(str, i))})]

NoGroups == <<"", "">>

NoMatch == [start |-> 0, end |-> -1, grp |-> NoGroups]

IsWordAt(s, i) == i >= 1 /\ i <= Len(s) /\ Ch(s, i) \in WordChars

RECURSIVE CountRun(_, _, _, _)
CountRun(s, pos, cs, hi) ==
    IF hi = 0 \/ pos > Len(s) \/ Ch(s, pos) \notin cs THEN 0
    ELSE 1 + CountRun(s, pos + 1, cs, IF hi = -1 THEN -1 ELSE hi - 1)

RECURSIVE MatchItems(_, _, _, _)
RECURSIVE TryCount(_, _, _, _, _)
MatchItems(items, i, s, pos) ==
    IF i > Len(items) THEN [start |-> 0, end |-> pos, grp |-> NoGroups]
    ELSE LET it == items[i] IN
         IF it.k = "wb" THEN
             IF IsWordAt(s, pos - 1) # IsWordAt(s, pos)
             THEN MatchItems(items, i + 1, s, pos) ELSE NoMatch
         ELSE IF it.k = "bol" THEN
             IF pos = 1 THEN MatchItems(items, i + 1, s, pos) ELSE NoMatch
         ELSE IF it.k = "eol" THEN
             IF pos = Len(s) + 1 \/ (pos = Len(s) /\ Ch(s, pos) = "\n")
             THEN MatchItems(items, i + 1, s, pos) ELSE NoMatch
         ELSE TryCount(items, i, s, pos, CountRun(s, pos, it.cs, it.hi))

TryCount(items, i, s, pos, c) ==
    IF c < items[i].lo THEN NoMatch
    ELSE LET r == MatchItems(items, i + 1, s, pos + c) IN
         IF r.end >= 0
         THEN IF items[i].g > 0
              THEN [r EXCEPT !.grp[items[i].g] = SubSeq(s, pos, pos + c - 1)]
              ELSE r
         ELSE TryCount(items, i, s, pos, c - 1)

RECURSIVE MatchAlts(_, _, _, _)
MatchAlts(re, a, s, pos) ==
    IF a > Len(re) THEN NoMatch
    ELSE LET r == MatchItems(re[a], 1, s, pos) IN
         IF r.end >= 0 THEN [r EXCEPT !.start = pos]
         ELSE MatchAlts(re, a + 1, s, pos)

\* re.search from position pos on: the leftmost match, or NoMatch
RECURSIVE SearchFrom(_, _, _)
SearchFrom(re, s, pos) ==
    IF pos > Len(s) + 1 THEN NoMatch
    ELSE LET r == MatchAlts(re, 1, s, pos) IN
         IF r.end >= 0 THEN r ELSE SearchFrom(re, s, pos + 1)

Search(re, s) == SearchFrom(re, s, 1)

\* the successive non-overlapping matches, left to right (re.findall, re.sub)
RECURSIVE MatchesFrom(_, _, _)
MatchesFrom(re, s, pos) ==
    LET r == SearchFrom(re, s, pos) IN
    IF r.end < 0 THEN <<>>
    ELSE <<r>> \o MatchesFrom(re, s, IF r.end > r.start THEN r.end ELSE r.end + 1)

\* re.findall of a pattern without groups: the matched substrings
FindAll(re, s) ==
    LET ms == MatchesFrom(re, s, 1) IN
    [j \in 1..Len(ms) |-> SubSeq(s, ms[j].start, ms[j].end - 1)]

(***************************************************************************)
(* Python helpers                                                          *)
(***************************************************************************)
Range(f) == {f[i] : i \in DOMAIN f}

\* list(set(xs)): the distinct elements in the order the set yields them,
\* which the hash seed of the process decides: any order
Orderings(S) ==
    {f \in [1..Cardinality(S) -> S] : \A i, j \in DOMAIN f : f[i] = f[j] => i = j}

\* xs[:n]
Take(xs, n) == SubSeq(xs, 1, IF Len(xs) < n THEN Len(xs) ELSE n)

RECURSIVE LStrip(_)
LStrip(s) ==
    IF Len(s) > 0 /\ Ch(s, 1) \in SpaceChars THEN LStrip(SubSeq(s, 2, Len(s))) ELSE s

RECURSIVE RStrip(_)
RStrip(s) ==
    IF Len(s) > 0 /\ Ch(s, Len(s)) \in SpaceChars
    THEN RStrip(SubSeq(s, 1, Len(s) - 1)) ELSE s

\* str.strip()
Strip(s) == RStrip(LStrip(s))

\* whether s[pos:] starts with lit
StartsAt(s, lit, pos) ==
    pos + Len(lit) - 1 <= Len(s) /\ SubSeq(s, pos, pos + Len(lit) - 1) = lit

\* str.startswith(lit)
StartsWith(s, lit) == StartsAt(s, lit, 1)

\* str.replace(lit, ""), lit not empty
RECURSIVE Remove(_, _)
Remove(s, lit) ==
    IF Len(s) = 0 THEN ""
    ELSE IF StartsAt(s, lit, 1) THEN Remove(SubSeq(s, Len(lit) + 1, Len(s)), lit)
    ELSE Ch(s, 1) \o Remove(SubSeq(s, 2, Len(s)), lit)

\* str.split(c)[0]: the text before the first c
RECURSIVE Before(_, _)
Before(s, c) ==
    IF Len(s) = 0 \/ Ch(s, 1) = c THEN ""
    ELSE Ch(s, 1) \o Before(SubSeq(s, 2, Len(s)), c)

\* c in s
Contains(s, c) == \E i \in 1..Len(s) : Ch(s, i) = c

\* Python truth of a string or None
Truthy(v) == v # NoneVal /\ v # ""

(***************************************************************************)
(* InstagramBot.extract_username                                           *)
(***************************************************************************)
HandleChars == Letters \cup Digits \cup {"_", "."}

\* r'instagram\.com/([A-Za-z0-9_.]+)/?'
PatternA == << Lit("instagram.com/") \o <<Group(1, Plus(HandleChars)), Opt({"/"})>> >>

\* r'instagram\.com/([A-Za-z0-9_.]+)\?'
PatternB == << Lit("instagram.com/") \o <<Group(1, Plus(HandleChars)), One({"?"})>> >>

\* r'^([A-Za-z0-9_.]+)$'
PatternC == << <<BOL, Group(1, Plus(HandleChars)), EOL>> >>

\* the rules with (b) tried before (a)
patterns_b_first == <<PatternB, PatternA, PatternC>>

patterns == <<PatternA, PatternB, PatternC>>

\* the loop over patterns from index i on: the first pattern that matches decides
RECURSIVE FirstMatch(_, _, _)
FirstMatch(ps, text, i) ==
    IF i > Len(ps) THEN NoneVal
    ELSE LET m == Search(ps[i], text) IN
         IF m.end >= 0 THEN Before(Before(m.grp[1], "/"), "?")
         ELSE FirstMatch(ps, text, i + 1)

extract_username(text) == FirstMatch(patterns, Remove(text, "@"), 1)

(***************************************************************************)
(* InstagramBot.clean_text                                                 *)
(***************************************************************************)
\* the backquote, which a TLA+ string cannot hold: "'" stands for it
Backquote == "'"

\* the class [*_`\[\]()~>#+=|{}.!-]
MarkdownChars ==
    {"*", "_", Backquote, "[", "]", "(", ")", "~", ">", "#", "+", "=", "|", "{", "}",
     ".", "!", "-"}

\* re.sub(r'([...])', r'\\\1', text): a backslash before every match
RECURSIVE EscapeFrom(_, _)
EscapeFrom(text, pos) ==
    LET m == SearchFrom(<< <<Group(1, One(MarkdownChars))>> >>, text, pos) IN
    IF m.end < 0 THEN SubSeq(text, pos, Len(text))
    ELSE SubSeq(text, pos, m.start - 1) \o "\\" \o m.grp[1] \o EscapeFrom(text, m.end)

clean_text(text) == IF ~Truthy(text) THEN "" ELSE EscapeFrom(text, 1)

(***************************************************************************)
(* InstagramBot.extract_contact_from_bio                                   *)
(***************************************************************************)
\* r'\b[A-Za-z0-9._%+-]+@[A-Za-z0-9.-]+\.[A-Z|a-z]{2,}\b'
email_pattern ==
    << <<WB, Plus(Letters \cup Digits \cup {".", "_", "%", "+", "-"}), One({"@"}),
         Plus(Letters \cup Digits \cup {".", "-"}), One({"."}),
         Cls(Letters \cup {"|"}, 2, -1, 0), WB>> >>

Sep == {"-", "."}

SepS == {"-", "."} \cup SpaceChars

D(lo, hi) == Cls(Digits, lo, hi, 0)

phone_patterns ==
    << \* r'\b\d{3}[-.]?\d{3}[-.]?\d{4}\b'
       << <<WB, D(3, 3), Opt(Sep), D(3, 3), Opt(Sep), D(4, 4), WB>> >>,
       \* r'\b\(\d{3}\)\s*\d{3}[-.]?\d{4}\b'
       << <<WB, One({"("}), D(3, 3), One({")"}), Star(SpaceChars), D(3, 3), Opt(Sep),
            D(4, 4), WB>> >>,
       \* r'\b\d{10}\b'
       << <<WB, D(10, 10), WB>> >>,
       \* r'\b\+\d{1,3}[-.\s]?\(?\d{1,4}\)?[-.\s]?\d{1,4}[-.\s]?\d{1,9}\b'
       << <<WB, One({"+"}), D(1, 3), Opt(SepS), Opt({"("}), D(1, 4), Opt({")"}),
            Opt(SepS), D(1, 4), Opt(SepS), D(1, 9), WB>> >> >>

\* <trigger>[: ]*@([A-Za-z0-9_]+), the capture being group g
AtHandle(trigger, g) ==
    LitI(trigger) \o <<Star({":", " "}), One({"@"}), Group(g, Plus(WordChars))>>

\* <trigger>[: ]*([0-9+()\- ]+), the capture being group g
LooseNumber(trigger, g) ==
    LitI(trigger) \o
    <<Star({":", " "}), Group(g, Plus(Digits \cup {"+", "(", ")", "-", " "}))>>

social_patterns ==
    << [platform |-> "telegram", groups |-> 2,
        re |-> <<AtHandle("telegram", 1), AtHandle("tg", 2)>>],
       [platform |-> "whatsapp", groups |-> 2,
        re |-> <<LooseNumber("whatsapp", 1), LooseNumber("wa", 2)>>],
       [platform |-> "signal", groups |-> 1,
        re |-> <<LooseNumber("signal", 1)>>],
       [platform |-> "snapchat", groups |-> 2,
        re |-> <<AtHandle("snapchat", 1), AtHandle("snap", 2)>>],
       [platform |-> "twitter", groups |-> 2,
        re |-> <<AtHandle("twitter", 1), AtHandle("twt", 2)>>] >>

\* str.title() of a lower-case word
Title(w) == SwapCase(Ch(w, 1)) \o SubSeq(w, 2, Len(w))

\* for group in match: the first element that is non-empty after strip(), stripped.
\* findall gives a tuple of the groups when the pattern has two, and the one
\* group's string when it has one: iterating that string yields its characters.
RECURSIVE FirstNonBlankChar(_, _)
FirstNonBlankChar(s, i) ==
    IF i > Len(s) THEN ""
    ELSE IF Strip(Ch(s, i)) # "" THEN Ch(s, i)
    ELSE FirstNonBlankChar(s, i + 1)

PickedGroup(sp, m) ==
    IF sp.groups = 1 THEN FirstNonBlankChar(m.grp[1], 1)
    ELSE IF Strip(m.grp[1]) # "" THEN Strip(m.grp[1])
    ELSE Strip(m.grp[2])

RECURSIVE LabelsOf(_, _, _)
LabelsOf(sp, ms, j) ==
    IF j > Len(ms) THEN <<>>
    ELSE LET v == PickedGroup(sp, ms[j]) IN
         (IF v # "" THEN <<Title(sp.platform) \o ": " \o v>> ELSE <<>>)
         \o LabelsOf(sp, ms, j + 1)

RECURSIVE SocialFrom(_, _)
SocialFrom(bio, k) ==
    IF k > Len(social_patterns) THEN <<>>
    ELSE LabelsOf(social_patterns[k], MatchesFrom(social_patterns[k].re, bio, 1), 1)
         \o SocialFrom(bio, k + 1)

RECURSIVE PhonesFrom(_, _)
PhonesFrom(bio, k) ==
    IF k > Len(phone_patterns) THEN <<>>
    ELSE FindAll(phone_patterns[k], bio) \o PhonesFrom(bio, k + 1)

\* re.findall(email_pattern, bio, re.IGNORECASE): the class already holds both cases
BioEmails(bio) == Range(FindAll(email_pattern, bio))

NoBioContacts == [emails |-> <<>>, phones |-> <<>>, social_handles |-> <<>>]

\* the values extract_contact_from_bio may return (one per order of each set)
extract_contact_from_bio(bio) ==
    IF ~Truthy(bio) THEN {NoBioContacts}
    ELSE {[emails |-> e, phones |-> p, social_handles |-> h] :
             e \in Orderings(BioEmails(bio)),
             p \in Orderings(Range(PhonesFrom(bio, 1))),
             h \in Orderings(Range(SocialFrom(bio, 1)))}

(***************************************************************************)
(* InstagramBot.get_contacts_from_website                                  *)
(*                                                                         *)
(* The network's answer to the request is a record site: the href of every *)
(* <a> of the page in document order (links), the page's text (text), and  *)
(* where, if anywhere, an exception is raised inside the try block: fault  *)
(* is "none", "get" (requests.get), "parse" (BeautifulSoup), "mailto" or   *)
(* "tel" (in that loop, when `after` links of it have been handled) or     *)
(* "text" (the scan of the page text).  A url that is not a string is the  *)
(* value NotAStr: url.startswith then raises.                              *)
(***************************************************************************)
NotAStr == "<not-a-str>"

website_cap == 3

NoWebsiteContacts == [emails |-> <<>>, phones |-> <<>>, contact_links |-> <<>>]

\* the request's URL: 'https://' is put before a url that names no scheme
RequestUrl(url) ==
    IF StartsWith(url, "http://") \/ StartsWith(url, "https://") THEN url
    ELSE "https://" \o url

\* soup.find_all('a', href=re.compile(lit)): the links whose href holds lit
RECURSIVE LinksWith(_, _, _)
LinksWith(links, lit, i) ==
    IF i > Len(links) THEN <<>>
    ELSE (IF Search(<<Lit(lit)>>, links[i]).end >= 0 THEN <<links[i]>> ELSE <<>>)
         \o LinksWith(links, lit, i + 1)

\* the mailto loop over the first n links of it
RECURSIVE MailtoEmails(_, _)
MailtoEmails(hrefs, n) ==
    IF n = 0 THEN <<>>
    ELSE LET email == Before(Remove(hrefs[n], "mailto:"), "?") IN
         MailtoEmails(hrefs, n - 1)
         \o (IF email # "" /\ Contains(email, "@") THEN <<email>> ELSE <<>>)

\* the tel loop over the first n links of it
RECURSIVE TelPhones(_, _)
TelPhones(hrefs, n) ==
    IF n = 0 THEN <<>>
    ELSE LET phone == Remove(hrefs[n], "tel:") IN
         TelPhones(hrefs, n - 1) \o (IF phone # "" THEN <<phone>> ELSE <<>>)

Lesser(a, b) == IF a < b THEN a ELSE b

\* the values get_contacts_from_website may return: the dictionary as it stands
\* when the exception is caught, or with both lists deduplicated and capped
get_contacts_from_website(url, site) ==
    LET mailto == LinksWith(site.links, "mailto:", 1)
        tel == LinksWith(site.links, "tel:", 1)
        allMail == MailtoEmails(mailto, Len(mailto))
        allEmails == allMail \o FindAll(email_pattern, site.text)
        allPhones == TelPhones(tel, Len(tel))
    IN  IF url = NotAStr \/ site.fault \in {"get", "parse"} THEN {NoWebsiteContacts}
        ELSE IF site.fault = "mailto"
        THEN {[NoWebsiteContacts EXCEPT
                 !.emails = MailtoEmails(mailto, Lesser(site.after, Len(mailto)))]}
        ELSE IF site.fault = "text"
        THEN {[NoWebsiteContacts EXCEPT !.emails = allMail]}
        ELSE IF site.fault = "tel"
        THEN {[NoWebsiteContacts EXCEPT
                 !.emails = allEmails,
                 !.phones = TelPhones(tel, Lesser(site.after, Len(tel)))]}
        ELSE {[NoWebsiteContacts EXCEPT
                 !.emails = Take(e, website_cap), !.phones = Take(p, website_cap)] :
                 e \in Orderings(Range(allEmails)), p \in Orderings(Range(allPhones))}

(***************************************************************************)
(* InstagramBot.format_contact_response                                    *)
(***************************************************************************)
\* any(xs): some element is true, that is, a non-empty string
AnyTrue(xs) == \E i \in 1..Len(xs) : xs[i] # ""

\* a or b, of two lists
OrList(a, b) == IF Len(a) > 0 THEN a ELSE b

RECURSIVE Bullets(_, _)
Bullets(xs, i) ==
    IF i > Len(xs) THEN "" ELSE "   o " \o xs[i] \o "\n" \o Bullets(xs, i + 1)

NoContactText ==
    "^ No contact information found in bio or linked website.\n"
    \o "Contact details are only available if the user shares them publicly."

social_cap == 5

has_bio_contacts(contacts) ==
    AnyTrue(OrList(contacts.emails, OrList(contacts.phones, contacts.social_handles)))

\* a formatter that overlooks the website bundle
overlooks_website(website_contacts) == FALSE

has_website_contacts(website_contacts) ==
    AnyTrue(OrList(website_contacts.emails, website_contacts.phones))

BioSection(contacts) ==
    "^ Contact Information from Bio:\n"
    \o (IF Len(contacts.emails) > 0
        THEN "^ Emails:\n" \o Bullets(contacts.emails, 1) ELSE "")
    \o (IF Len(contacts.phones) > 0
        THEN "^ Phones:\n" \o Bullets(contacts.phones, 1) ELSE "")
    \o (IF Len(contacts.social_handles) > 0
        THEN "^ Social Handles:\n"
             \o Bullets(Take(contacts.social_handles, social_cap), 1)
        ELSE "")

WebsiteSection(website_contacts) ==
    "^ Contact Information from Website:\n"
    \o (IF Len(website_contacts.emails) > 0
        THEN "^ Website Emails:\n" \o Bullets(website_contacts.emails, 1) ELSE "")
    \o (IF Len(website_contacts.phones) > 0
        THEN "^ Website Phones:\n" \o Bullets(website_contacts.phones, 1) ELSE "")

format_contact_response(contacts, website_contacts) ==
    LET bio == has_bio_contacts(contacts)
        web == has_website_contacts(website_contacts)
    IN  IF ~bio /\ ~web THEN NoContactText
        ELSE (IF bio THEN BioSection(contacts) ELSE "")
             \o (IF web
                 THEN (IF bio THEN "\n" ELSE "") \o WebsiteSection(website_contacts)
                 ELSE "")

(***************************************************************************)
(* InstagramBot.format_profile_response                                    *)
(*                                                                         *)
(* A count of the record is [kind, n]: absent (None), an integer n, or a   *)
(* value of another type ("str"), which the format ':,' refuses.           *)
(***************************************************************************)
NoCount == [kind |-> "none", n |-> 0]

IntCount(n) == [kind |-> "int", n |-> n]

StrCount == [kind |-> "str", n |-> 0]

RECURSIVE IntToStr(_)
IntToStr(n) ==
    IF n < 10 THEN Ch(DigitStr, n + 1)
    ELSE IntToStr(n \div 10) \o Ch(DigitStr, (n % 10) + 1)

\* format(n, ','): a comma before every group of three digits
RECURSIVE Grouped(_)
Grouped(digits) ==
    IF Len(digits) <= 3 THEN digits
    ELSE Grouped(SubSeq(digits, 1, Len(digits) - 3)) \o ","
         \o SubSeq(digits, Len(digits) - 2, Len(digits))

CountLine(label, c) ==
    IF c.kind = "none" THEN "" ELSE label \o Grouped(IntToStr(c.n)) \o "\n"

\* str(v) inside an f-string
Str(v) == IF v = NoneVal THEN "None" ELSE v

bio_cap == 500

\* whether format_profile_response raises: a count that is not a number
FormatRaises(profile_info) ==
    \E c \in {profile_info.followers, profile_info.following, profile_info.posts} :
        c.kind = "str"

\* the lines before the contact section
ProfileLines(profile_info) ==
    "^ Instagram Profile Info\n\n"
    \o "Username: @" \o Str(profile_info.username) \o "\n"
    \o (IF Truthy(profile_info.full_name)
        THEN "^ Name: " \o profile_info.full_name \o "\n" ELSE "")
    \o CountLine("^ Followers: ", profile_info.followers)
    \o CountLine("^ Following: ", profile_info.following)
    \o CountLine("^ Posts: ", profile_info.posts)
    \o (IF Truthy(profile_info.biography)
        THEN "^ Bio: "
             \o (IF Len(profile_info.biography) > bio_cap
                 THEN SubSeq(profile_info.biography, 1, bio_cap) \o "..."
                 ELSE profile_info.biography)
             \o "\n"
        ELSE "")
    \o (IF Truthy(profile_info.external_url)
        THEN "^ Website: " \o profile_info.external_url \o "\n" ELSE "")
    \o (IF Truthy(profile_info.business_category)
        THEN "^ Category: " \o profile_info.business_category \o "\n" ELSE "")
    \o "\nStatus: "
    \o (IF profile_info.is_private THEN "^ Private" ELSE "^ Public")
    \o (IF profile_info.is_verified THEN " | ^ Verified" ELSE "")
    \o "\n"

\* the line after the contact section
ProfileUrlLine(username) ==
    "\n^ Profile URL: https://www.instagram.com/" \o username \o "/"

format_profile_response(profile_info, username, contacts, website_contacts) ==
    ProfileLines(profile_info)
    \o "\n" \o format_contact_response(contacts, website_contacts)
    \o ProfileUrlLine(username)

(***************************************************************************)
(* The split of a response into messages (handle_instagram_url)            *)
(***************************************************************************)
max_message_len == 4000

\* a split that keeps the first slice only
FirstSlice(response) == <<SubSeq(response, 1, max_message_len)>>

\* [response[i:i+4000] for i in range(0, len(response), 4000)]
Slices(response) ==
    [k \in 1..((Len(response) + max_message_len - 1) \div max_message_len) |->
        SubSeq(response, (k - 1) * max_message_len + 1,
               Lesser(k * max_message_len, Len(response)))]

\* the messages sent for a composed response, in order
Chunks(response) ==
    IF Len(response) > max_message_len THEN Slices(response) ELSE <<response>>

(***************************************************************************)
(* The profile sources.  What a source finds for a user name is an         *)
(* outcome: <<>> when the source has no result (an exception is caught, or *)
(* the page holds no profile), or <<raw>>, raw being the fields found.     *)
(* profile_info is None as <<>> and a dictionary d as <<d>>.               *)
(***************************************************************************)
\* get_profile_info_instaloader, given what Profile.from_username found
get_profile_info_instaloader(outcome) ==
    IF outcome = <<>> THEN <<>>
    ELSE LET profile == outcome[1] IN
         << [username |-> profile.username,
             full_name |-> clean_text(profile.full_name),
             biography |-> clean_text(profile.biography),
             followers |-> profile.followers,
             following |-> profile.following,
             posts |-> profile.posts,
             is_private |-> profile.is_private,
             is_verified |-> profile.is_verified,
             profile_pic_url |-> profile.profile_pic_url,
             external_url |-> profile.external_url,
             business_category |->
                 IF profile.has_category THEN clean_text(profile.category)
                 ELSE NoneVal] >>

\* get_profile_info_web, given the user object found in the page
get_profile_info_web(outcome) ==
    IF outcome = <<>> THEN <<>>
    ELSE LET profile_data == outcome[1] IN
         << [username |-> profile_data.username,
             full_name |-> clean_text(profile_data.full_name),
             biography |-> clean_text(profile_data.biography),
             followers |-> profile_data.followers,
             following |-> profile_data.following,
             posts |-> profile_data.posts,
             is_private |-> profile_data.is_private,
             is_verified |-> profile_data.is_verified,
             profile_pic_url |-> profile_data.profile_pic_url,
             external_url |-> profile_data.external_url,
             business_category |-> NoneVal] >>

(***************************************************************************)
(* The texts handle_instagram_url replies with                             *)
(***************************************************************************)
InvalidText ==
    "^ Invalid Instagram URL or username.\n"
    \o "Please send a valid Instagram profile link.\n\n"
    \o "Examples:\n"
    \o "o https://www.instagram.com/username/\n"
    \o "o @username\n"
    \o "o username"

PrivateText ==
    "^ This profile is private.\n\n"
    \o "I can only access public profile information. "
    \o "Please make sure the profile is public or try another account."

UnavailableText ==
    "^ Could not fetch profile information.\n\n"
    \o "Possible reasons:\n"
    \o "o Profile doesn't exist\n"
    \o "o Instagram rate limiting\n"
    \o "o Network issues\n"
    \o "o Profile is private\n\n"
    \o "Please try again later or check the username."

ErrorText ==
    "^ An error occurred while fetching profile information.\n"
    \o "Please try again later."

(***************************************************************************)
(* State                                                                   *)
(*                                                                         *)
(* A request is one message handled by handle_instagram_url.  The handler  *)
(* is a coroutine: between two awaits its code runs without interruption,  *)
(* and at an await another request's handler may run.  pc[r] names the     *)
(* await at which request r stands, and an action is the code from one     *)
(* await to the next.                                                      *)
(***************************************************************************)
Req == {1, 2}

VARIABLES
    loader,            \* self.loader, the Instaloader made by __init__
    net,               \* what the network serves: primary, web, sites
    text,              \* text[r]: update.message.text
    pc,                \* pc[r]: "idle" (no such message), "new", an await, "done",
                       \* "raised" (an exception left the handler)
    user_input,        \* the locals of the handler, per request
    username,
    profile_info,
    contacts,
    website_contacts,
    response,
    part,              \* the index into parts of the part being sent
    sent,              \* sent[r]: the messages delivered to the chat, in order
    calls,             \* calls[r]: the calls made on the request's behalf, in order
    primary_out,       \* <<>>, or <<outcome>> of the primary source's query
    web_out,           \* <<>>, or <<outcome>> of the fallback source's query
    site_out,          \* <<>>, or <<site>>: the answer to the website request
    u_pc,              \* the function under study, when one is checked alone:
    u_arg,             \* its argument,
    u_ret,             \* its result,
    u_out              \* and what has been emitted of it

hvars == <<loader, net, text, pc, user_input, username, profile_info, contacts,
           website_contacts, response, part, sent, calls, primary_out, web_out,
           site_out>>

uvars == <<u_pc, u_arg, u_ret, u_out>>

vars == <<hvars, uvars>>

Call(op, arg) == [op |-> op, arg |-> arg]

TypingCall == Call("send_action", "typing")

\* the handler has not run: every local is unset
HandlerInit(texts, network) ==
    /\ loader = "Instaloader"
    /\ net = network
    /\ text = texts
    /\ pc = [r \in Req |-> IF texts[r] = NoneVal THEN "idle" ELSE "new"]
    /\ user_input = [r \in Req |-> NoneVal]
    /\ username = [r \in Req |-> NoneVal]
    /\ profile_info = [r \in Req |-> <<>>]
    /\ contacts = [r \in Req |-> NoBioContacts]
    /\ website_contacts = [r \in Req |-> NoWebsiteContacts]
    /\ response = [r \in Req |-> ""]
    /\ part = [r \in Req |-> 0]
    /\ sent = [r \in Req |-> <<>>]
    /\ calls = [r \in Req |-> <<>>]
    /\ primary_out = [r \in Req |-> <<>>]
    /\ web_out = [r \in Req |-> <<>>]
    /\ site_out = [r \in Req |-> <<>>]

UnitOff == u_pc = "off" /\ u_arg = "" /\ u_ret = "" /\ u_out = <<>>

(***************************************************************************)
(* handle_instagram_url                                                    *)
(***************************************************************************)
\* a handler that keeps the user name in one cell shared by all requests
SharedUsername(r, u) == [q \in Req |-> u]

\* username = self.extract_username(user_input): a local of the request
StoreUsername(r, u) == [username EXCEPT ![r] = u]

\* a handler that never turns to the fallback source
never_falls_back(info) == FALSE

\* if not profile_info (after the primary source)
needs_fallback(info) == info = <<>>

\* a handler that ignores the private mark
ignores_private(info) == FALSE

\* if profile_info.get('is_private')
is_private_profile(info) == info[1].is_private

\* where the handler stands once profile_info is settled
AfterFetch(info) ==
    IF info = <<>> THEN "reply_unavailable"
    ELSE IF is_private_profile(info) THEN "reply_private"
    ELSE "typing_3"

\* the profile of the user name asked for, as the source found it
Served(outcome, u) ==
    IF outcome = <<>> THEN <<>> ELSE << [outcome[1] EXCEPT !.username = u] >>

\* lines 336-351: strip, normalise, and either reply "invalid" or signal typing
Receive(r) ==
    /\ pc[r] = "new"
    /\ LET inp == Strip(text[r])
           u == extract_username(inp)
       IN  /\ user_input' = [user_input EXCEPT ![r] = inp]
           /\ username' = StoreUsername(r, u)
           /\ pc' = [pc EXCEPT ![r] = IF ~Truthy(u) THEN "reply_invalid" ELSE "typing_1"]
    /\ UNCHANGED <<loader, net, text, profile_info, contacts, website_contacts,
                   response, part, sent, calls, primary_out, web_out, site_out, uvars>>

\* a reply_text returns: msg is delivered to the chat of request r
Delivered(r, msg) == [sent EXCEPT ![r] = Append(@, msg)]

\* lines 340-348: the "invalid" reply returns, and the handler with it
SentInvalid(r) ==
    /\ pc[r] = "reply_invalid"
    /\ sent' = Delivered(r, InvalidText)
    /\ pc' = [pc EXCEPT ![r] = "done"]
    /\ UNCHANGED <<loader, net, text, user_input, username, profile_info, contacts,
                   website_contacts, response, part, calls, primary_out, web_out,
                   site_out, uvars>>

\* lines 365-370: the "private" reply returns, and the handler with it
SentPrivate(r) ==
    /\ pc[r] = "reply_private"
    /\ sent' = Delivered(r, PrivateText)
    /\ pc' = [pc EXCEPT ![r] = "done"]
    /\ UNCHANGED <<loader, net, text, user_input, username, profile_info, contacts,
                   website_contacts, response, part, calls, primary_out, web_out,
                   site_out, uvars>>

\* lines 395-403: the "could not fetch" reply returns
SentUnavailable(r) ==
    /\ pc[r] = "reply_unavailable"
    /\ sent' = Delivered(r, UnavailableText)
    /\ pc' = [pc EXCEPT ![r] = "done"]
    /\ UNCHANGED <<loader, net, text, user_input, username, profile_info, contacts,
                   website_contacts, response, part, calls, primary_out, web_out,
                   site_out, uvars>>

\* lines 405-410: the except clause's reply returns
SentError(r) ==
    /\ pc[r] = "reply_error"
    /\ sent' = Delivered(r, ErrorText)
    /\ pc' = [pc EXCEPT ![r] = "done"]
    /\ UNCHANGED <<loader, net, text, user_input, username, profile_info, contacts,
                   website_contacts, response, part, calls, primary_out, web_out,
                   site_out, uvars>>

\* lines 351-358: the typing signal returns; the primary source is queried
Typing1(r) ==
    /\ pc[r] = "typing_1"
    /\ \E found \in net.primary :
         LET outcome == Served(found, username[r])
             info == get_profile_info_instaloader(outcome)
         IN  /\ primary_out' = [primary_out EXCEPT ![r] = <<outcome>>]
             /\ profile_info' = [profile_info EXCEPT ![r] = info]
             /\ calls' = [calls EXCEPT ![r] =
                            @ \o <<TypingCall, Call("instaloader", username[r])>>]
             /\ pc' = [pc EXCEPT ![r] =
                         IF needs_fallback(info) THEN "typing_2" ELSE AfterFetch(info)]
    /\ UNCHANGED <<loader, net, text, user_input, username, contacts, website_contacts,
                   response, part, sent, web_out, site_out, uvars>>

\* lines 359-362: the typing signal returns; the fallback source is queried
Typing2(r) ==
    /\ pc[r] = "typing_2"
    /\ \E found \in net.web :
         LET outcome == Served(found, username[r])
             info == get_profile_info_web(outcome)
         IN  /\ web_out' = [web_out EXCEPT ![r] = <<outcome>>]
             /\ profile_info' = [profile_info EXCEPT ![r] = info]
             /\ calls' = [calls EXCEPT ![r] =
                            @ \o <<TypingCall, Call("web", username[r])>>]
             /\ pc' = [pc EXCEPT ![r] = AfterFetch(info)]
    /\ UNCHANGED <<loader, net, text, user_input, username, contacts, website_contacts,
                   response, part, sent, primary_out, site_out, uvars>>

\* lines 384-392: compose the response; an exception of the composition is caught
\* by the handler's except clause, else the first message is sent
Compose(r, c, w) ==
    LET info == profile_info[r][1]
        body == format_profile_response(info, username[r], c, w)
    IN  IF FormatRaises(info)
        THEN /\ pc' = [pc EXCEPT ![r] = "reply_error"]
             /\ UNCHANGED <<response, part>>
        ELSE /\ response' = [response EXCEPT ![r] = body]
             /\ IF Len(body) > max_message_len
                THEN /\ pc' = [pc EXCEPT ![r] = "send_part"]
                     /\ part' = [part EXCEPT ![r] = 1]
                ELSE /\ pc' = [pc EXCEPT ![r] = "send_single"]
                     /\ UNCHANGED part

\* lines 373-379: the typing signal returns; the biography is mined
Typing3(r) ==
    /\ pc[r] = "typing_3"
    /\ LET bio == profile_info[r][1].biography IN
       \E c \in extract_contact_from_bio(bio) :
         /\ contacts' = [contacts EXCEPT ![r] = c]
         /\ IF Truthy(profile_info[r][1].external_url)
            THEN /\ calls' = [calls EXCEPT ![r] =
                        @ \o <<TypingCall, Call("extract_contact_from_bio", bio)>>]
                 /\ pc' = [pc EXCEPT ![r] = "typing_4"]
                 /\ UNCHANGED <<response, part>>
            ELSE /\ calls' = [calls EXCEPT ![r] =
                        @ \o <<TypingCall, Call("extract_contact_from_bio", bio)>>]
                 /\ Compose(r, c, NoWebsiteContacts)
    /\ website_contacts' = [website_contacts EXCEPT ![r] = NoWebsiteContacts]
    /\ UNCHANGED <<loader, net, text, user_input, username, profile_info, sent,
                   primary_out, web_out, site_out, uvars>>

\* lines 380-384: the typing signal returns; the linked website is read
Typing4(r) ==
    /\ pc[r] = "typing_4"
    /\ LET url == profile_info[r][1].external_url IN
       \E site \in net.sites :
         \E w \in get_contacts_from_website(url, site) :
           /\ site_out' = [site_out EXCEPT ![r] = <<site>>]
           /\ website_contacts' = [website_contacts EXCEPT ![r] = w]
           /\ calls' = [calls EXCEPT ![r] =
                          @ \o <<TypingCall, Call("get_contacts_from_website", url)>>]
           /\ Compose(r, contacts[r], w)
    /\ UNCHANGED <<loader, net, text, user_input, username, profile_info, contacts,
                   sent, primary_out, web_out, uvars>>

\* lines 389-390: a part is delivered; the next one, if any, is sent
SentPart(r) ==
    /\ pc[r] = "send_part"
    /\ LET parts == Chunks(response[r]) IN
       /\ sent' = Delivered(r, parts[part[r]])
       /\ IF part[r] < Len(parts)
          THEN /\ part' = [part EXCEPT ![r] = @ + 1]
               /\ UNCHANGED pc
          ELSE /\ pc' = [pc EXCEPT ![r] = "done"]
               /\ UNCHANGED part
    /\ UNCHANGED <<loader, net, text, user_input, username, profile_info, contacts,
                   website_contacts, response, calls, primary_out, web_out, site_out,
                   uvars>>

\* line 392
SentSingle(r) ==
    /\ pc[r] = "send_single"
    /\ sent' = Delivered(r, response[r])
    /\ pc' = [pc EXCEPT ![r] = "done"]
    /\ UNCHANGED <<loader, net, text, user_input, username, profile_info, contacts,
                   website_contacts, response, part, calls, primary_out, web_out,
                   site_out, uvars>>

\* the awaits inside the try block: an exception of one is caught at line 405
InsideTry ==
    {"typing_2", "reply_private", "typing_3", "typing_4", "send_part", "send_single",
     "reply_unavailable"}

\* the awaits outside it: lines 340 and 351, and line 407 in the except clause
OutsideTry == {"reply_invalid", "typing_1", "reply_error"}

\* the awaited call raises instead of returning (telegram.error.NetworkError,
\* TimedOut, ...): nothing is delivered by it
TransportFault(r) ==
    /\ pc[r] \in InsideTry \cup OutsideTry
    /\ pc' = [pc EXCEPT ![r] = IF pc[r] \in InsideTry THEN "reply_error" ELSE "raised"]
    /\ UNCHANGED <<loader, net, text, user_input, username, profile_info, contacts,
                   website_contacts, response, part, sent, calls, primary_out, web_out,
                   site_out, uvars>>

Handle(r) ==
    \/ Receive(r)
    \/ SentInvalid(r)
    \/ Typing1(r)
    \/ Typing2(r)
    \/ SentPrivate(r)
    \/ SentUnavailable(r)
    \/ Typing3(r)
    \/ Typing4(r)
    \/ SentPart(r)
    \/ SentSingle(r)
    \/ SentError(r)

Next == \E r \in Req : Handle(r)

NextFault == \E r \in Req : Handle(r) \/ TransportFault(r)

(***************************************************************************)
(* The environment: the messages that arrive and what the network serves   *)
(***************************************************************************)
\* s repeated n times
RECURSIVE Rep(_, _)
Rep(s, n) ==
    IF n = 0 THEN ""
    ELSE IF n % 2 = 0 THEN LET half == Rep(s, n \div 2) IN half \o half
    ELSE s \o Rep(s, n - 1)

\* an external link long enough for the response to need two messages
LongUrl == "site.io/" \o Rep("a", max_message_len)

Found(name, bio, followers, private, verified, url) ==
    << [username |-> "", full_name |-> name, biography |-> bio,
        followers |-> followers, following |-> IntCount(12), posts |-> IntCount(0),
        is_private |-> private, is_verified |-> verified,
        profile_pic_url |-> "https://cdn.example/p.jpg", external_url |-> url,
        has_category |-> name # "", category |-> IF name # "" THEN "Artist" ELSE NoneVal] >>

Biographies == {"", "mail a.b@example.com!", "call 5551234567", "tg:@foo"}

PrivateFound == Found("Al_Bo", "mail a.b@example.com!", IntCount(7), TRUE, FALSE, "site.io")

PublicFound(names, bios, counts, urls) ==
    {Found(n, b, f, FALSE, n # "", u) : n \in names, b \in bios, f \in counts, u \in urls}

Page(links, txt, fault, after) ==
    [links |-> links, text |-> txt, fault |-> fault, after |-> after]

ContactLinks ==
    <<"mailto:a@x.io?subject=hi", "https://x.io/about", "mailto:a@x.io",
      "tel:+15551234567", "mailto:nobody">>

ManyLinks == <<"mailto:a@x.io", "mailto:b@y.org", "mailto:c@z.co", "mailto:d@w.net">>

Sites ==
    {Page(ContactLinks, "write to b@y.org.", f[1], f[2]) :
        f \in {<<"none", 0>>, <<"get", 0>>, <<"parse", 0>>, <<"mailto", 1>>,
               <<"text", 0>>, <<"tel", 0>>}}
    \cup {Page(<<>>, "nothing here", "none", 0)}
    \cup {Page(ManyLinks, "", f, 0) : f \in {"none", "text"}}

FullNet ==
    [primary |-> {<<>>, PrivateFound}
                 \cup PublicFound({"", "Al_Bo"}, Biographies, {IntCount(1234567)},
                                  {NoneVal, "site.io", NotAStr, LongUrl}),
     web |-> {<<>>, PrivateFound}
             \cup PublicFound({"", "Al_Bo"}, Biographies,
                              {NoCount, IntCount(950), StrCount},
                              {NoneVal, "site.io", NotAStr, LongUrl}),
     sites |-> Sites]

\* a network small enough for two requests side by side
SmallNet ==
    [primary |-> {<<>>, PrivateFound,
                  Found("Al_Bo", "tg:@foo", IntCount(1234567), FALSE, TRUE, "site.io")},
     web |-> {<<>>,
              Found("", "call 5551234567", StrCount, FALSE, FALSE, NoneVal),
              Found("", "", NoCount, FALSE, FALSE, LongUrl)},
     sites |-> {Page(ContactLinks, "write to b@y.org.", "none", 0),
                Page(<<>>, "", "get", 0)}]

NoNet == [primary |-> {}, web |-> {}, sites |-> {}]

Texts ==
    {"@abc", " https://www.instagram.com/a.b/ ", "https://instagram.com/abc?x=1",
     "abc", "!!!", "a b"}

\* one message, any network answer
Init ==
    /\ \E t \in Texts : HandlerInit([r \in Req |-> IF r = 1 THEN t ELSE NoneVal], FullNet)
    /\ UnitOff

\* two messages at once
InitPair ==
    /\ \E t1, t2 \in {"@abc", "a.b", "!!!"} :
         HandlerInit([r \in Req |-> IF r = 1 THEN t1 ELSE t2], SmallNet)
    /\ UnitOff

\* the transport accepts every call
Spec == Init /\ [][Next]_vars

\* the transport may refuse any call
SpecFault == Init /\ [][NextFault]_vars

\* two requests interleaved at their awaits
SpecPair == InitPair /\ [][Next]_vars

HandlerOff == HandlerInit([r \in Req |-> NoneVal], NoNet)

(***************************************************************************)
(* extract_username alone, on every text of up to MaxSegments segments and *)
(* on the four accepted forms of every handle of up to MaxHandleLen        *)
(* characters                                                              *)
(***************************************************************************)
MaxSegments == 4

MaxHandleLen == 2

Segments == {"instagram.com/", "a", "/", "?", "@"}

RECURSIVE Joined(_)
Joined(segs) == IF Len(segs) = 0 THEN "" ELSE Head(segs) \o Joined(Tail(segs))

SegmentTexts ==
    UNION {{Joined(s) : s \in [1..n -> Segments]} : n \in 0..MaxSegments}

Handles ==
    UNION {{Joined(s) : s \in [1..n -> {"a", "B", "7", "_", "."}]} : n \in 1..MaxHandleLen}

\* the accepted forms of handle h
FormsOf(h) ==
    {"https://www.instagram.com/" \o h \o "/",
     "https://instagram.com/" \o h \o "?x=1",
     "@" \o h,
     h}

InitUser ==
    /\ HandlerOff
    /\ u_pc = "call"
    /\ u_arg \in SegmentTexts \cup UNION {FormsOf(h) : h \in Handles}
    /\ u_ret = ""
    /\ u_out = <<>>

Normalize ==
    /\ u_pc = "call"
    /\ u_ret' = extract_username(u_arg)
    /\ u_pc' = "returned"
    /\ UNCHANGED <<hvars, u_arg, u_out>>

SpecUser == InitUser /\ [][Normalize]_vars

(***************************************************************************)
(* The split alone, on a response of every length up to MaxBodyLen         *)
(***************************************************************************)
MaxBodyLen == 8001

BodyText == Rep("abcdefg", 1200)

InitChunk ==
    /\ HandlerOff
    /\ u_pc = "composed"
    /\ \E n \in 1..MaxBodyLen : u_arg = SubSeq(BodyText, 1, n)
    /\ u_ret = <<>>
    /\ u_out = <<>>

\* lines 387-388, 392: the messages to send
Split ==
    /\ u_pc = "composed"
    /\ u_ret' = Chunks(u_arg)
    /\ u_pc' = "sending"
    /\ UNCHANGED <<hvars, u_arg, u_out>>

\* lines 389-390, 392: the next message is sent
Emit ==
    /\ u_pc = "sending"
    /\ u_out' = Append(u_out, u_ret[Len(u_out) + 1])
    /\ u_pc' = IF Len(u_out) + 1 = Len(u_ret) THEN "sent" ELSE "sending"
    /\ UNCHANGED <<hvars, u_arg, u_ret>>

NextChunk == Split \/ Emit

SpecChunk == InitChunk /\ [][NextChunk]_vars

(***************************************************************************)
(* Properties                                                              *)
(***************************************************************************)
Ops(r) == [i \in 1..Len(calls[r]) |-> calls[r][i].op]

\* the queries of the profile sources made for request r, in order
IsQuery(c) == c.op \in {"instaloader", "web"}

Queries(r) == SelectSeq(calls[r], IsQuery)

\* the request has a user name to look up
Resolvable(r) == Truthy(username[r])

\* the source was asked and had no result
YieldedNothing(out) == out = << <<>> >>

C1_BothEmpty ==
    /\ pc[1] = "done"
    /\ YieldedNothing(primary_out[1]) /\ YieldedNothing(web_out[1])
    /\ sent[1] = <<UnavailableText>>

Private(r) == profile_info[r] # <<>> /\ profile_info[r][1].is_private

Miners == {"extract_contact_from_bio", "get_contacts_from_website"}

\* C2: when the record obtained from either source is marked private, the
\* request ends with exactly the "profile is private" text; neither
\* extract_contact_from_bio nor get_contacts_from_website is invoked in it,
\* and no profile text is composed or sent.
C2_PrivateShortCircuit ==
    \A r \in Req :
        Private(r) =>
            /\ pc[r] \in {"reply_private", "done"}
            /\ \A i \in 1..Len(calls[r]) : calls[r][i].op \notin Miners
            /\ response[r] = ""
            /\ contacts[r] = NoBioContacts
            /\ website_contacts[r] = NoWebsiteContacts
            /\ sent[r] = IF pc[r] = "done" THEN <<PrivateText>> ELSE <<>>

\* a finished request whose private record came from the fallback source
C2_PrivateFromFallback ==
    /\ pc[1] = "done"
    /\ Private(1)
    /\ web_out[1] # <<>>
    /\ sent[1] = <<PrivateText>>

\* the response of request r has been composed
Composed(r) == response[r] # ""

\* the profile the answering source found for request r, before sanitisation
RawProfile(r) == IF web_out[r] # <<>> THEN web_out[r][1][1] ELSE primary_out[r][1][1]

\* the contact section of the composed response: what stands between the
\* profile lines and the profile URL line
ContactSection(r) ==
    SubSeq(response[r],
           Len(ProfileLines(profile_info[r][1])) + 2,
           Len(response[r]) - Len(ProfileUrlLine(username[r])))

\* the places at which lit occurs in s
Occurrences(s, lit) ==
    {i \in 1..(Len(s) - Len(lit) + 1) : SubSeq(s, i, i + Len(lit) - 1) = lit}

BioHeader == "^ Contact Information from Bio:\n"

WebsiteHeader == "^ Contact Information from Website:\n"

BioBundleEmpty(r) ==
    /\ contacts[r].emails = <<>>
    /\ contacts[r].phones = <<>>
    /\ contacts[r].social_handles = <<>>

WebsiteBundleEmpty(r) ==
    /\ website_contacts[r].emails = <<>>
    /\ website_contacts[r].phones = <<>>

\* C7: in the composed response the contact section is exactly the "no
\* contact information found" text if and only if the bio bundle (emails,
\* phones, social handles) and the website bundle (emails, phones) are all
\* empty; a public profile without biography and external link gets that
\* text; when both bundles are non-empty the bio section comes before the
\* website section, a blank line between them.
C7_ContactSection ==
    \A r \in Req :
        Composed(r) =>
            LET section == ContactSection(r)
                bioAt == Occurrences(section, BioHeader)
                webAt == Occurrences(section, WebsiteHeader)
            IN  /\ response[r] = ProfileLines(profile_info[r][1]) \o "\n" \o section
                                    \o ProfileUrlLine(username[r])
                /\ (section = NoContactText)
                       = (BioBundleEmpty(r) /\ WebsiteBundleEmpty(r))
                /\ Occurrences(section, NoContactText) # {} => section = NoContactText
                /\ (~Truthy(RawProfile(r).biography)
                        /\ ~Truthy(RawProfile(r).external_url)) =>
                       section = NoContactText
                /\ (~BioBundleEmpty(r) /\ ~WebsiteBundleEmpty(r)) =>
                       /\ bioAt = {1}
                       /\ Cardinality(webAt) = 1
                       /\ \A w \in webAt :
                              /\ w > 2
                              /\ SubSeq(section, w - 2, w - 1) = "\n\n"
                              /\ \A i \in 1..(w - 3) : Ch(section, i) # "\n"
                                     \/ Ch(section, i + 1) # "\n"
                /\ (~BioBundleEmpty(r)) = (bioAt # {})
                /\ (~WebsiteBundleEmpty(r)) = (webAt # {})

\* a composed response that shows contacts of the bio and of the website
C7_BothSections ==
    /\ pc[1] = "done"
    /\ Composed(1)
    /\ ~BioBundleEmpty(1) /\ ~WebsiteBundleEmpty(1)
    /\ sent[1] = <<response[1]>>

\* a composed response without any contact, the website having been read
C7_NoContacts ==
    /\ pc[1] = "done"
    /\ Composed(1)
    /\ site_out[1] # <<>>
    /\ ContactSection(1) = NoContactText

\* the website of request r's profile has been read
SiteRead(r) == \E i \in 1..Len(calls[r]) : calls[r][i].op = "get_contacts_from_website"

\* C4: a failure at any point inside get_contacts_from_website (the URL, the
\* retrieval, the parsing, the collection of link targets and page-text
\* emails) leaves an empty bundle: no emails and no phones.
C4_FaultGivesEmptyBundle ==
    \A r \in Req :
        (SiteRead(r) /\ site_out[r] # <<>> /\ site_out[r][1].fault # "none") =>
            WebsiteBundleEmpty(r)

NoDuplicates(xs) == \A i, j \in 1..Len(xs) : xs[i] = xs[j] => i = j

\* C6: every bundle get_contacts_from_website returns, on any path, has at
\* most 3 emails and at most 3 phones, no entry twice in either list, and no
\* social handles.
C6_WebsiteBundleCapped ==
    \A r \in Req :
        SiteRead(r) =>
            /\ Len(website_contacts[r].emails) <= website_cap
            /\ Len(website_contacts[r].phones) <= website_cap
            /\ NoDuplicates(website_contacts[r].emails)
            /\ NoDuplicates(website_contacts[r].phones)
            /\ DOMAIN website_contacts[r] = {"emails", "phones", "contact_links"}

\* the biography of request r's profile has been mined
BioMined(r) == \E i \in 1..Len(calls[r]) : calls[r][i].op = "extract_contact_from_bio"

\* C10: for a public profile the emails the handler mines from the record's
\* biography are the emails extract_contact_from_bio finds in the raw
\* biography.
C10_MiningUnaffectedBySanitizing ==
    \A r \in Req :
        BioMined(r) =>
            Range(contacts[r].emails) = BioEmails(RawProfile(r).biography)

\* the outputs the handler is meant to end with
FixedOutcomes(r) ==
    {<<InvalidText>>, <<UnavailableText>>, <<PrivateText>>, <<ErrorText>>}
    \cup (IF Composed(r) THEN {Chunks(response[r])} ELSE {})

\* C3: whatever fault occurs in a stage of the pipeline (chunk delivery
\* included), no exception leaves handle_instagram_url, and what the user
\* has received when the handler ends is exactly one of: the invalid-input
\* text, the could-not-fetch text, the private-profile text, the chunks of
\* the composed profile, the generic error text; never a mixture.
C3_OneFixedOutcome ==
    \A r \in Req :
        /\ pc[r] # "raised"
        /\ pc[r] = "done" => sent[r] \in FixedOutcomes(r)

\* the same, where every call to Telegram succeeds
C3_OneFixedOutcomeReliable ==
    \A r \in Req : pc[r] = "done" => sent[r] \in FixedOutcomes(r)

\* what request r must have sent when it ends, computed from its own
\* message and from what the sources and the website answered to it alone
OwnOutputs(r) ==
    LET u == extract_username(Strip(text[r])) IN
    IF ~Truthy(u) THEN {<<InvalidText>>}
    ELSE LET info == IF ~YieldedNothing(primary_out[r])
                     THEN get_profile_info_instaloader(primary_out[r][1])
                     ELSE get_profile_info_web(web_out[r][1])
         IN  IF info = <<>> THEN {<<UnavailableText>>}
             ELSE IF info[1].is_private THEN {<<PrivateText>>}
             ELSE IF FormatRaises(info[1]) THEN {<<ErrorText>>}
             ELSE {Chunks(format_profile_response(info[1], u, c, w)) :
                      c \in extract_contact_from_bio(info[1].biography),
                      w \in IF Truthy(info[1].external_url)
                            THEN get_contacts_from_website(info[1].external_url,
                                                           site_out[r][1])
                            ELSE {NoWebsiteContacts}}

\* the state kept for request r
Locals(r) ==
    <<text[r], pc[r], user_input[r], username[r], profile_info[r], contacts[r],
      website_contacts[r], response[r], part[r], sent[r], calls[r], primary_out[r],
      web_out[r], site_out[r]>>

\* a step of one request leaves the state of the other, and the bot's, as it was
OneRequestSteps ==
    /\ loader' = loader
    /\ net' = net
    /\ \E r \in Req : \A q \in Req \ {r} : Locals(q)' = Locals(q)

\* every query is made with the request's own user name, and the answer
\* is about that name
OwnQueries(r) ==
    LET u == extract_username(Strip(text[r])) IN
    /\ \A i \in 1..Len(calls[r]) : IsQuery(calls[r][i]) => calls[r][i].arg = u
    /\ (primary_out[r] # <<>> /\ ~YieldedNothing(primary_out[r])) =>
           primary_out[r][1][1].username = u
    /\ (web_out[r] # <<>> /\ ~YieldedNothing(web_out[r])) =>
           web_out[r][1][1].username = u

Sizes(xs) == [i \in 1..Len(xs) |-> Len(xs[i])]

\* C5: for a body of every length, every emitted chunk has at most 4000
\* characters, every chunk but the last exactly 4000; the chunks are emitted
\* in order and their concatenation is the body; a body of at most 4000
\* characters is one chunk; a body of 8001 characters gives chunks of 4000,
\* 4000 and 1.
C5_Chunking ==
    u_pc \in {"sending", "sent"} =>
        LET n == Len(u_out)
            emitted == Joined(u_out)
        IN  /\ \A i \in 1..n : Len(u_out[i]) <= 4000
            /\ \A i \in 1..(n - 1) : Len(u_out[i]) = 4000
            /\ emitted = SubSeq(u_arg, 1, Len(emitted))
            /\ u_pc = "sending" => Len(emitted) < Len(u_arg)
            /\ u_pc = "sent" =>
                   /\ emitted = u_arg
                   /\ Len(u_arg) <= 4000 => u_out = <<u_arg>>
                   /\ Len(u_arg) = 8001 => Sizes(u_out) = <<4000, 4000, 1>>
                   /\ n = (Len(u_arg) + 3999) \div 4000

\* a body of 8001 characters has been sent in three messages
C5_ThreeChunks ==
    /\ u_pc = "sent"
    /\ Len(u_arg) = 8001
    /\ Sizes(u_out) = <<4000, 4000, 1>>

\* the rule that decides for a text: the first of (a), (b), (c) that matches
DecidingRule(t) ==
    IF Search(PatternA, t).end >= 0 THEN "a"
    ELSE IF Search(PatternB, t).end >= 0 THEN "b"
    ELSE IF Search(PatternC, t).end >= 0 THEN "c"
    ELSE "none"

\* the group a rule captures in a text, cut at the first "/" and "?"
CapturedBy(rule, t) ==
    LET re == CASE rule = "a" -> PatternA [] rule = "b" -> PatternB [] OTHER -> PatternC
    IN  Before(Before(Search(re, t).grp[1], "/"), "?")

\* C8: for every handle h over [A-Za-z0-9_.]+ extract_username returns h for
\* the profile URL with a trailing slash, the profile URL with a query
\* string, "@h" and bare h; the rules are tried in the order (a), (b), (c)
\* and the first that matches decides.
C8_Normalized ==
    u_pc = "returned" =>
        LET t == Remove(u_arg, "@")
            rule == DecidingRule(t)
        IN  /\ \A h \in Handles : u_arg \in FormsOf(h) => u_ret = h
            /\ u_ret = IF rule = "none" THEN NoneVal ELSE CapturedBy(rule, t)

\* a text in which rules (a) and (b) capture different names has been normalised
C8_RulesDisagree ==
    /\ u_pc = "returned"
    /\ Search(PatternA, u_arg).end >= 0
    /\ Search(PatternB, u_arg).end >= 0
    /\ CapturedBy("a", u_arg) # CapturedBy("b", u_arg)
    /\ u_ret = CapturedBy("a", u_arg)

\* the URL of handle "a_" with a query string has been normalised
C8_QueryForm ==
    /\ u_pc = "returned"
    /\ u_arg = "https://instagram.com/a_?x=1"
    /\ u_ret = "a_"

====
